---- MODULE Spec2Model ----
(***************************************************************************)
(* Model of the bidirectional breadth-first solver of src/main.cpp: the    *)
(* move representation (TSimpleCycleMove, TCompositeMove, TMove), the move *)
(* catalogs (GenerateAllMoves, GenerateAll2Moves), the search (DoSolve),   *)
(* the path reconstruction (ReverseMoves, Solve) and the two-stage driver  *)
(* (Project, Solve2Stages).                                                *)
(*                                                                         *)
(* A cube (std::string) is a sequence of one-character strings; position p *)
(* of the C++ string is element p + 1 of the sequence.  A move identifier  *)
(* (std::string) is the sequence of its characters: U' is <<"U", "'">>.    *)
(* A std::unordered_map<std::string, TMove> is the sequence of its         *)
(* (first, second) pairs in the map's iteration order, which the language  *)
(* leaves unspecified: the models of the catalog builders take the order   *)
(* as a parameter and the callers choose it.                               *)
(***************************************************************************)
EXTENDS Integers, Sequences, FiniteSets, TLC

(***************************************************************************)
(* Bounds of the model.                                                    *)
(***************************************************************************)
\* number of iteration orders of an unordered_map that are explored
NumOrders == 2
\* longest scramble (over ScrambleAlphabet) applied to a goal to get a start
MaxScramble == 3
\* longest sequence of catalog moves applied one after the other in SpecMoves
MaxApply == 4
\* the longest cycle a single TSimpleCycleMove is tried with
MaxCycle == 3

(***************************************************************************)
(* Moves: class TBaseMoveImpl and its three implementations.               *)
(***************************************************************************)
\* TEmptyMove
TEmptyMove == [kind |-> "empty"]

\* TSimpleCycleMove(cycle): cycle is a sequence of 0-based positions
TSimpleCycleMove(cycle) == [kind |-> "cycle", Cycle |-> cycle]

\* TCompositeMove(left, right)
TCompositeMove(left, right) == [kind |-> "composite", Left |-> left, Right |-> right]

\* Cycle element i (0-based, as the vector is indexed in the code)
At(Cycle, i) == Cycle[i + 1]

\* Op(value), with value computed before Op is entered (TLC computes an
\* operator's argument where the operator uses it, and again at every use
\* when it can keep no copy; a bound variable holds a computed value)
Then(value, Op(_)) == CHOOSE after \in {Op(before) : before \in {value}} : TRUE

\* TSimpleCycleMove::Apply without its last statement cube[Cycle[1]] = t
SimpleCycleApplyNoLast(cube, Cycle) ==
    LET n == Len(Cycle)
        RECURSIVE Loop(_, _)
        Loop(c, i) ==
            IF i > 0
            THEN Then([c EXCEPT ![At(Cycle, (i + 1) % n) + 1] = c[At(Cycle, i) + 1]],
                      LAMBDA assigned : Loop(assigned, i - 1))
            ELSE c
    IN  Loop(cube, n - 1)

\* TSimpleCycleMove::Apply: t = cube[Cycle[0]]; for i = n-1 down to 1
\* cube[Cycle[(i+1) % n]] = cube[Cycle[i]]; then cube[Cycle[1]] = t.
SimpleCycleApply(cube, Cycle) ==
    LET n == Len(Cycle)
        t == cube[At(Cycle, 0) + 1]
        RECURSIVE Loop(_, _)
        Loop(c, i) ==
            IF i > 0
            THEN Then([c EXCEPT ![At(Cycle, (i + 1) % n) + 1] = c[At(Cycle, i) + 1]],
                      LAMBDA assigned : Loop(assigned, i - 1))
            ELSE c
    IN  Then(Loop(cube, n - 1), LAMBDA rotated : [rotated EXCEPT ![At(Cycle, 1) + 1] = t])

\* TSimpleCycleMove::Apply for a Cycle of any length n >= 1. With n = 1 the
\* loop does not run and the last statement reads Cycle[1] past the end of
\* the vector: the index read is stray, whatever lies behind the vector's one
\* element, and t is written there when that is a position of the cube (a
\* write beyond the cube leaves the cube as it is).
SimpleCycleApplyAt(cube, Cycle, stray) ==
    IF Len(Cycle) >= 2 THEN SimpleCycleApply(cube, Cycle)
    ELSE LET t == cube[At(Cycle, 0) + 1]
         IN  IF stray < Len(cube) THEN [cube EXCEPT ![stray + 1] = t] ELSE cube

\* the position the last statement of TSimpleCycleMove::Apply writes
LastWritten(Cycle, stray) == IF Len(Cycle) >= 2 THEN At(Cycle, 1) ELSE stray

\* TBaseMoveImpl::Apply, dispatched on the implementation; TCompositeMove
\* applies Left, then Right.  TMove::operator() calls it on Impl.
RECURSIVE Apply(_, _)
Apply(move, cube) ==
    CASE move.kind = "empty" -> cube
      [] move.kind = "cycle" -> SimpleCycleApply(cube, move.Cycle)
      [] move.kind = "composite" ->
            Then(Apply(move.Left, cube), LAMBDA left : Apply(move.Right, left))

\* TMove::operator+=: Impl becomes TCompositeMove(Impl, clone of rgt.Impl)
PlusAssign(lft, rgt) == TCompositeMove(lft, rgt)

\* CreateComposite(first, args...): CreateComposite(first) += CreateComposite(args...)
RECURSIVE CreateComposite(_)
CreateComposite(moves) ==
    IF Len(moves) = 1
    THEN moves[1]
    ELSE PlusAssign(moves[1], CreateComposite(Tail(moves)))

\* TMove(const std::vector<size_t> &cycle)
TMove(cycle) == TSimpleCycleMove(cycle)

(***************************************************************************)
(* The catalogs.                                                           *)
(***************************************************************************)
MoveL2 == CreateComposite(<<TMove(<<30, 35>>), TMove(<<31, 34>>), TMove(<<32, 33>>), TMove(<<3, 18>>), TMove(<<0, 15>>), TMove(<<6, 21>>), TMove(<<9, 24>>), TMove(<<12, 27>>)>>)
MoveR2 == CreateComposite(<<TMove(<<36, 41>>), TMove(<<37, 40>>), TMove(<<38, 39>>), TMove(<<5, 20>>), TMove(<<2, 17>>), TMove(<<14, 29>>), TMove(<<11, 26>>), TMove(<<8, 23>>)>>)
MoveF2 == CreateComposite(<<TMove(<<0, 5>>), TMove(<<1, 4>>), TMove(<<2, 3>>), TMove(<<12, 23>>), TMove(<<13, 22>>), TMove(<<14, 21>>), TMove(<<32, 39>>), TMove(<<35, 36>>)>>)
MoveB2 == CreateComposite(<<TMove(<<15, 20>>), TMove(<<16, 19>>), TMove(<<17, 18>>), TMove(<<6, 29>>), TMove(<<7, 28>>), TMove(<<8, 27>>), TMove(<<30, 41>>), TMove(<<33, 38>>)>>)
MoveU == CreateComposite(<<TMove(<<6, 8, 14, 12>>), TMove(<<7, 11, 13, 9>>), TMove(<<0, 30, 20, 36>>), TMove(<<1, 31, 19, 37>>), TMove(<<2, 32, 18, 38>>)>>)
MoveD == CreateComposite(<<TMove(<<21, 23, 29, 27>>), TMove(<<22, 26, 28, 24>>), TMove(<<3, 39, 17, 33>>), TMove(<<4, 40, 16, 34>>), TMove(<<5, 41, 15, 35>>)>>)

\* GenerateAllMoves with U2 built from a single u
AllMovesInsertedShortU2 ==
    << [first |-> <<"L", "2">>, second |-> MoveL2],
       [first |-> <<"R", "2">>, second |-> MoveR2],
       [first |-> <<"F", "2">>, second |-> MoveF2],
       [first |-> <<"B", "2">>, second |-> MoveB2],
       [first |-> <<"U">>,  second |-> MoveU],
       [first |-> <<"U", "2">>, second |-> CreateComposite(<<MoveU>>)],
       [first |-> <<"U", "'">>, second |-> CreateComposite(<<MoveU, MoveU, MoveU>>)],
       [first |-> <<"D">>,  second |-> MoveD],
       [first |-> <<"D", "2">>, second |-> CreateComposite(<<MoveD, MoveD>>)],
       [first |-> <<"D", "'">>, second |-> CreateComposite(<<MoveD, MoveD, MoveD>>)] >>

\* the entries of GenerateAllMoves in the order the code inserts them
AllMovesInserted ==
    << [first |-> <<"L", "2">>, second |-> MoveL2],
       [first |-> <<"R", "2">>, second |-> MoveR2],
       [first |-> <<"F", "2">>, second |-> MoveF2],
       [first |-> <<"B", "2">>, second |-> MoveB2],
       [first |-> <<"U">>,  second |-> MoveU],
       [first |-> <<"U", "2">>, second |-> CreateComposite(<<MoveU, MoveU>>)],
       [first |-> <<"U", "'">>, second |-> CreateComposite(<<MoveU, MoveU, MoveU>>)],
       [first |-> <<"D">>,  second |-> MoveD],
       [first |-> <<"D", "2">>, second |-> CreateComposite(<<MoveD, MoveD>>)],
       [first |-> <<"D", "'">>, second |-> CreateComposite(<<MoveD, MoveD, MoveD>>)] >>

\* s rotated left by k places
Rotate(s, k) == [i \in 1..Len(s) |-> s[((i - 1 + k) % Len(s)) + 1]]

\* s back to front
Reversed(s) == [i \in 1..Len(s) |-> s[Len(s) + 1 - i]]

\* Iteration order number o of an unordered_map whose entries were inserted
\* in the order ins: order 0 is the insertion order, order 1 its reverse,
\* orders 2, 3 the same for the entries rotated by one place, and so on.
IterationOrder(ins, o) ==
    IF Len(ins) = 0 THEN ins
    ELSE IF o % 2 = 0 THEN Rotate(ins, o \div 2) ELSE Reversed(Rotate(ins, o \div 2))

Orders == 0..(NumOrders - 1)

\* GenerateAllMoves(), iterated in order o
GenerateAllMoves(o) == IterationOrder(AllMovesInserted, o)

\* move.first.size() == 2 && move.first[1] == '2'
IsHalfTurnEntry(move) == Len(move.first) = 2 /\ move.first[2] = "2"

\* GenerateAll2Moves(): the half-turn entries of GenerateAllMoves() (iterated
\* in order o1) inserted into a fresh map, itself iterated in order o2
GenerateAll2Moves(o1, o2) == IterationOrder(SelectSeq(GenerateAllMoves(o1), IsHalfTurnEntry), o2)

\* the identifiers of a catalog
Ids(allMoves) == {allMoves[i].first : i \in 1..Len(allMoves)}

\* allMoves.find(id) != allMoves.end()
Contains(allMoves, id) == id \in Ids(allMoves)

\* the move stored under id
MoveOf(allMoves, id) == allMoves[CHOOSE i \in 1..Len(allMoves) : allMoves[i].first = id].second

(***************************************************************************)
(* Path reconstruction and projection.                                     *)
(***************************************************************************)
\* ReverseMoves that leaves every identifier as it is
ReverseOneKeep(move) == move

\* ReverseMoves without the test for half turns: "X2" becomes "X"
ReverseOneNoHalf(move) ==
    IF Len(move) > 1 THEN SubSeq(move, 1, 1) ELSE Append(move, "'")

\* ReverseMoves, one identifier: "X2" stays, "X'" (any other identifier
\* longer than one character) becomes its first character, "X" becomes "X'"
ReverseOne(move) ==
    IF Len(move) > 1 /\ move[2] = "2" THEN move
    ELSE IF Len(move) > 1 THEN SubSeq(move, 1, 1)
    ELSE Append(move, "'")

\* ReverseMoves: every identifier reversed, then std::reverse of the list
ReverseMoves(moves) == Reversed([i \in 1..Len(moves) |-> ReverseOne(moves[i])])

\* Project: 'o' becomes 'r', 'g' becomes 'b'
Project(cube) ==
    [i \in 1..Len(cube) |->
        IF cube[i] = "o" THEN "r" ELSE IF cube[i] = "g" THEN "b" ELSE cube[i]]

\* allMoves[id] of Solve2Stages: std::unordered_map::operator[] inserts a
\* default-constructed TMove (a TEmptyMove) under an identifier it lacks
IndexInsert(allMoves, id) ==
    IF Contains(allMoves, id) THEN allMoves
    ELSE Append(allMoves, [first |-> id, second |-> TEmptyMove])

\* the moves named by ids applied to cube one after the other, as the loop
\* of Solve2Stages does
RECURSIVE ApplyIds(_, _, _)
ApplyIds(allMoves, ids, cube) ==
    IF ids = <<>> THEN cube
    ELSE LET map == IndexInsert(allMoves, Head(ids))
             moved == Apply(MoveOf(map, Head(ids)), cube)
         IN  Then(moved, LAMBDA before : ApplyIds(map, Tail(ids), before))

(***************************************************************************)
(* Inputs.                                                                 *)
(***************************************************************************)
\* endCube of main
EndCubeMain == <<"r","r","r","r","r","r","b","b","b","b","b","b","b","b","b","o","o","o","o","o","o","g","g","g","g","g","g","g","g","g","w","w","w","w","w","w","y","y","y","y","y","y">>

\* a cube of a single symbol, which no move changes
UniformCube == [i \in 1..42 |-> "r"]

\* a cube with a different symbol at every position
DistinctCube == <<"a","b","c","d","e","f","g","h","i","j","k","l","m","n","o","p","q","r","s","t","u","v","w","x","y","z","A","B","C","D","E","F","G","H","I","J","K","L","M","N","O","P">>

\* the identifiers of GenerateAllMoves
AllIds == Ids(AllMovesInserted)

\* the identifiers the longer scrambles are made of, for the full catalog
\* and for the half-turn catalog
ScrambleAlphabet == {<<"U", "'">>, <<"L", "2">>, <<"D">>}
HalfTurnAlphabet == {<<"L", "2">>, <<"F", "2">>, <<"U", "2">>}

\* the sequences over S of length at most n
RECURSIVE SeqsUpTo(_, _)
SeqsUpTo(S, n) ==
    IF n = 0 THEN {<<>>}
    ELSE LET shorter == SeqsUpTo(S, n - 1)
         IN  shorter \cup {Append(s, x) : s \in shorter, x \in S}

\* the goals of a search
Goals == {EndCubeMain, Project(EndCubeMain)}

\* the sequences of one element of S
Singles(S) == {<<x>> : x \in S}

\* the catalogs a search is given: the two of the repository and the empty one
FullCatalogs == {GenerateAllMoves(o) : o \in Orders}
HalfTurnCatalogs == {GenerateAll2Moves(o1, o2) : o1 \in Orders, o2 \in Orders}
Catalogs == FullCatalogs \cup HalfTurnCatalogs \cup {<<>>}

\* the scrambles of a catalog: each single catalog move, and the sequences of
\* at most MaxScramble moves of the catalog's alphabet
Scrambles(allMoves) ==
    Singles(Ids(allMoves))
        \cup SeqsUpTo(IF allMoves \in FullCatalogs THEN ScrambleAlphabet
                      ELSE HalfTurnAlphabet \cap Ids(allMoves), MaxScramble)

\* searches from a goal scrambled by catalog moves: <<catalog, start, goal>>
ScrambledInputs ==
    UNION {{<<m, ApplyIds(m, s, g), g>> : s \in Scrambles(m), g \in Goals} : m \in Catalogs}

\* the uniform cube with symbol ch at position p (0-based)
Marked(p, ch) == [UniformCube EXCEPT ![p + 1] = ch]

\* (start, goal) pairs that no catalog connects: a symbol the other cube
\* lacks, or a corner facelet against an edge facelet
NoSolutionPairs ==
    {<<UniformCube, Marked(0, "y")>>, <<Marked(0, "y"), UniformCube>>,
     <<Marked(0, "y"), Marked(1, "y")>>}

\* (start, goal) pairs that the half turns do not connect
NoHalfTurnSolutionPairs ==
    LET goal == Project(EndCubeMain)
    IN  {<<Marked(0, "y"), Marked(30, "y")>>,
         <<ApplyIds(AllMovesInserted, <<<<"U">>, <<"D", "'">>>>, goal), goal>>}

\* searches that find nothing
NoSolutionInputs ==
    {<<m, p[1], p[2]>> : m \in Catalogs, p \in NoSolutionPairs}
        \cup {<<m, p[1], p[2]>> : m \in HalfTurnCatalogs, p \in NoHalfTurnSolutionPairs}

Inputs == ScrambledInputs \cup NoSolutionInputs

(***************************************************************************)
(* State.                                                                  *)
(***************************************************************************)
VARIABLES
    pc,          \* position of the program
    driver,      \* the caller: "Solve", "Pair", "Solve2Stages" or "Moves"
    stage,       \* 1, 2: the first, second call of Solve the driver makes
    argStart,    \* startCube of the driver (Solve2Stages, or the first call of a pair)
    argEnd,      \* endCube of the driver
    cube,        \* cube of Solve2Stages
    next,        \* position of the loop of Solve2Stages in result
    startCube,   \* startCube of Solve and DoSolve
    endCube,     \* endCube of Solve and DoSolve
    allMoves,    \* allMoves of Solve and DoSolve (of Solve2Stages during stage 1)
    fwdReached,  \* DoSolve: cube -> identifiers, a function on the cubes reached
    bwdReached,
    fwdQueue,    \* DoSolve: sequence of cubes, front first
    bwdQueue,
    current,     \* DoSolve: current
    currentMove, \* DoSolve: currentMove
    it,          \* DoSolve: position of the for loop in allMoves
    fwd,         \* Solve: fwd
    bwd,         \* Solve: bwd
    found,       \* value returned by DoSolve, then by Solve
    result,      \* result of Solve and Solve2Stages
    first        \* what the first call of a pair returned

vars == <<pc, driver, stage, argStart, argEnd, cube, next, startCube, endCube, allMoves,
          fwdReached, bwdReached, fwdQueue, bwdQueue, current, currentMove, it,
          fwd, bwd, found, result, first>>

driverVars == <<driver, stage, argStart, argEnd, cube, next, first>>
callVars == <<startCube, endCube, allMoves>>
searchVars == <<fwdReached, bwdReached, fwdQueue, bwdQueue, current, currentMove, it>>

\* a std::unordered_map with no entry
EmptyMap == <<>>

\* the locals of DoSolve before they are constructed
NoSearch ==
    /\ fwdReached = EmptyMap /\ bwdReached = EmptyMap
    /\ fwdQueue = <<>> /\ bwdQueue = <<>>
    /\ current = <<>> /\ currentMove = <<>> /\ it = 0

\* a call Solve(s, e, m, result)
CallSolve(s, e, m) ==
    /\ startCube' = s /\ endCube' = e /\ allMoves' = m
    /\ fwd' = <<>> /\ bwd' = <<>>
    /\ pc' = "DoSolve"

\* driver d is about to call Solve with an empty result
InitCall(d) ==
    /\ pc = "DoSolve"
    /\ driver = d
    /\ stage = 1
    /\ \E input \in Inputs :
          /\ allMoves = input[1] /\ startCube = input[2] /\ endCube = input[3]
          /\ argStart = input[2] /\ argEnd = input[3]
    /\ cube = <<>> /\ next = 0
    /\ NoSearch
    /\ fwd = <<>> /\ bwd = <<>>
    /\ found = FALSE
    /\ result = <<>>
    /\ first = <<>>

\* a caller like main: one call of Solve
Init == InitCall("Solve")

(***************************************************************************)
(* DoSolve.                                                                *)
(***************************************************************************)
\* DoSolve without the test of line 219
SameCubeNever(s, e) == FALSE

\* startCube == endCube (line 219)
SameCube(s, e) == s = e

\* reached[cube], which inserts an empty list under a cube the map lacks
MapIndex(reached, c) == IF c \in DOMAIN reached THEN reached ELSE reached @@ (c :> <<>>)

\* lines 219-229: return true at once for equal cubes; otherwise both maps
\* and both queues get their root
DoSolveEnter ==
    /\ pc = "DoSolve"
    /\ IF SameCube(startCube, endCube)
       THEN /\ found' = TRUE
            /\ pc' = "Solve"
            /\ UNCHANGED searchVars
       ELSE /\ fwdReached' = MapIndex(EmptyMap, startCube)
            /\ fwdQueue' = <<startCube>>
            /\ bwdReached' = MapIndex(EmptyMap, endCube)
            /\ bwdQueue' = <<endCube>>
            /\ pc' = "while"
            /\ UNCHANGED <<found, current, currentMove, it>>
    /\ UNCHANGED <<driverVars, callVars, fwd, bwd, result>>

\* the while loop with && for ||
LoopConditionBoth(fq, bq) == fq # <<>> /\ bq # <<>>

\* the condition of the while loop (line 230)
LoopCondition(fq, bq) == fq # <<>> \/ bq # <<>>

\* line 230 false, line 275: return false
LoopExit ==
    /\ pc = "while"
    /\ ~LoopCondition(fwdQueue, bwdQueue)
    /\ found' = FALSE
    /\ pc' = "Solve"
    /\ UNCHANGED <<driverVars, callVars, searchVars, fwd, bwd, result>>

\* a queue whose front is never removed
PopFrontKeep(queue) == queue

\* queue.pop_front()
PopFront(queue) == Tail(queue)

\* lines 231-235: the oldest forward cube is taken off the queue
FwdPop ==
    /\ pc = "while"
    /\ LoopCondition(fwdQueue, bwdQueue)
    /\ fwdQueue # <<>>
    /\ current' = Head(fwdQueue)
    /\ currentMove' = MapIndex(fwdReached, Head(fwdQueue))[Head(fwdQueue)]
    /\ fwdReached' = MapIndex(fwdReached, Head(fwdQueue))
    /\ fwdQueue' = PopFront(fwdQueue)
    /\ it' = 1
    /\ pc' = "fwdFor"
    /\ UNCHANGED <<driverVars, callVars, bwdReached, bwdQueue, fwd, bwd, found, result>>

\* line 231 false: nothing is pending forward
FwdSkip ==
    /\ pc = "while"
    /\ LoopCondition(fwdQueue, bwdQueue)
    /\ fwdQueue = <<>>
    /\ pc' = "bwdIf"
    /\ UNCHANGED <<driverVars, callVars, searchVars, fwd, bwd, found, result>>

\* Record without nextMove = currentMove: only the move's identifier is kept
RecordLastOnly(reached, c, moves, id) ==
    IF c \notin DOMAIN reached THEN reached @@ (c :> <<id>>) ELSE reached

\* Record without nextMove.push_back(move.first)
RecordNoPush(reached, c, moves, id) ==
    IF c \notin DOMAIN reached THEN reached @@ (c :> moves) ELSE reached

\* Record without the test of line 239: the list is written at every visit
RecordOverwrite(reached, c, moves, id) ==
    [x \in DOMAIN reached \cup {c} |-> IF x = c THEN Append(moves, id) ELSE reached[x]]

\* lines 239-244 (260-265): a cube not yet reached on this side is recorded
\* with the identifiers of current followed by the move's
Record(reached, c, moves, id) ==
    IF c \notin DOMAIN reached THEN reached @@ (c :> Append(moves, id)) ELSE reached

\* Enqueue with push_front for push_back
EnqueueFront(reached, queue, c) ==
    IF c \notin DOMAIN reached THEN <<c>> \o queue ELSE queue

\* ... and is added at the back of this side's queue
Enqueue(reached, queue, c) ==
    IF c \notin DOMAIN reached THEN Append(queue, c) ELSE queue

\* the test of line 245 (266) against the other side's root only
MetRootOnly(other, c) == c \in DOMAIN other /\ other[c] = <<>>

\* lines 245 (266): the cube has been reached on the other side
Met(other, c) == c \in DOMAIN other

\* lines 236-250: one catalog move applied to current
FwdMove ==
    /\ pc = "fwdFor"
    /\ it <= Len(allMoves)
    /\ LET move == allMoves[it]
           c == Apply(move.second, current)
           reached == Record(fwdReached, c, currentMove, move.first)
       IN  /\ fwdReached' = reached
           /\ fwdQueue' = Enqueue(fwdReached, fwdQueue, c)
           /\ IF Met(bwdReached, c)
              THEN /\ fwd' = reached[c]
                   /\ bwd' = bwdReached[c]
                   /\ found' = TRUE
                   /\ pc' = "Solve"
                   /\ it' = it
              ELSE /\ it' = it + 1
                   /\ UNCHANGED <<fwd, bwd, found, pc>>
    /\ UNCHANGED <<driverVars, callVars, bwdReached, bwdQueue, current, currentMove, result>>

\* line 252 as "else if": after a forward expansion the loop starts over
FwdForEndElse ==
    /\ pc = "fwdFor"
    /\ it > Len(allMoves)
    /\ pc' = "while"
    /\ UNCHANGED <<driverVars, callVars, searchVars, fwd, bwd, found, result>>

\* line 236: the catalog has been gone through
FwdForEnd ==
    /\ pc = "fwdFor"
    /\ it > Len(allMoves)
    /\ pc' = "bwdIf"
    /\ UNCHANGED <<driverVars, callVars, searchVars, fwd, bwd, found, result>>

\* lines 252-256: the oldest backward cube is taken off the queue
BwdPop ==
    /\ pc = "bwdIf"
    /\ bwdQueue # <<>>
    /\ current' = Head(bwdQueue)
    /\ currentMove' = MapIndex(bwdReached, Head(bwdQueue))[Head(bwdQueue)]
    /\ bwdReached' = MapIndex(bwdReached, Head(bwdQueue))
    /\ bwdQueue' = PopFront(bwdQueue)
    /\ it' = 1
    /\ pc' = "bwdFor"
    /\ UNCHANGED <<driverVars, callVars, fwdReached, fwdQueue, fwd, bwd, found, result>>

\* line 252 false: nothing is pending backward
BwdSkip ==
    /\ pc = "bwdIf"
    /\ bwdQueue = <<>>
    /\ pc' = "while"
    /\ UNCHANGED <<driverVars, callVars, searchVars, fwd, bwd, found, result>>

\* lines 257-271: one catalog move applied to current
BwdMove ==
    /\ pc = "bwdFor"
    /\ it <= Len(allMoves)
    /\ LET move == allMoves[it]
           c == Apply(move.second, current)
           reached == Record(bwdReached, c, currentMove, move.first)
       IN  /\ bwdReached' = reached
           /\ bwdQueue' = Enqueue(bwdReached, bwdQueue, c)
           /\ IF Met(fwdReached, c)
              THEN /\ fwd' = fwdReached[c]
                   /\ bwd' = reached[c]
                   /\ found' = TRUE
                   /\ pc' = "Solve"
                   /\ it' = it
              ELSE /\ it' = it + 1
                   /\ UNCHANGED <<fwd, bwd, found, pc>>
    /\ UNCHANGED <<driverVars, callVars, fwdReached, fwdQueue, current, currentMove, result>>

\* line 257: the catalog has been gone through
BwdForEnd ==
    /\ pc = "bwdFor"
    /\ it > Len(allMoves)
    /\ pc' = "while"
    /\ UNCHANGED <<driverVars, callVars, searchVars, fwd, bwd, found, result>>

(***************************************************************************)
(* Solve.                                                                  *)
(***************************************************************************)
\* result = fwd + ReverseMoves(bwd): an assignment for the push_backs
SolveResultAssigned(res, ok, f, b) == IF ok THEN f \o ReverseMoves(b) ELSE res

\* lines 310-317: result after Solve, given what DoSolve returned
SolveResult(res, ok, f, b) == IF ok THEN res \o f \o ReverseMoves(b) ELSE res

\* the locals of DoSolve go out of scope
EndSearch ==
    /\ fwdReached' = EmptyMap /\ bwdReached' = EmptyMap
    /\ fwdQueue' = <<>> /\ bwdQueue' = <<>>
    /\ current' = <<>> /\ currentMove' = <<>> /\ it' = 0

\* lines 310-317: Solve returns to its caller (the return from the first
\* Solve of Solve2Stages is S2FirstReturn)
SolveReturn ==
    /\ pc = "Solve"
    /\ driver = "Solve2Stages" => stage = 2
    /\ result' = SolveResult(result, found, fwd, bwd)
    /\ EndSearch
    /\ pc' = "done"
    /\ UNCHANGED <<driverVars, callVars, fwd, bwd, found>>

Next ==
    \/ DoSolveEnter
    \/ LoopExit
    \/ FwdPop
    \/ FwdSkip
    \/ FwdMove
    \/ FwdForEnd
    \/ BwdPop
    \/ BwdSkip
    \/ BwdMove
    \/ BwdForEnd
    \/ SolveReturn

Spec == Init /\ [][Next]_vars

\* the program runs on as long as it has a step to take
FairSpec == Spec /\ WF_vars(Next)

(***************************************************************************)
(* Solve2Stages.                                                           *)
(***************************************************************************)
\* (startCube, endCube) of Solve2Stages: endCube of main scrambled, and
\* pairs that the first or the second search does not connect
StageInputs ==
    {<<ApplyIds(AllMovesInserted, s, EndCubeMain), EndCubeMain>> :
        s \in SeqsUpTo(ScrambleAlphabet, MaxScramble)}
        \cup {<<UniformCube, Marked(0, "y")>>, <<Marked(0, "y"), UniformCube>>,
              <<Marked(0, "y"), Marked(30, "y")>>, <<Marked(0, "o"), Marked(30, "o")>>,
              <<Marked(0, "o"), Marked(5, "o")>>,
              <<[Marked(6, "y") EXCEPT ![3 + 1] = "o"], [Marked(8, "y") EXCEPT ![4 + 1] = "o"]>>}

InitStages ==
    /\ pc = "Solve2Stages"
    /\ driver = "Solve2Stages"
    /\ stage = 1
    /\ \E input \in StageInputs : argStart = input[1] /\ argEnd = input[2]
    /\ startCube = <<>> /\ endCube = <<>> /\ allMoves = <<>>
    /\ cube = <<>> /\ next = 0
    /\ NoSearch
    /\ fwd = <<>> /\ bwd = <<>>
    /\ found = FALSE
    /\ result = <<>>
    /\ first = <<>>

\* lines 322-323: the catalog is built and the projections are solved
S2Enter ==
    /\ pc = "Solve2Stages"
    /\ \E o \in Orders : CallSolve(Project(argStart), Project(argEnd), GenerateAllMoves(o))
    /\ UNCHANGED <<driverVars, searchVars, found, result>>

\* lines 310-317 and 323-326: the first Solve returns; on failure so does
\* Solve2Stages, otherwise cube starts as startCube
S2FirstReturn ==
    /\ pc = "Solve"
    /\ driver = "Solve2Stages" /\ stage = 1
    /\ result' = SolveResult(result, found, fwd, bwd)
    /\ EndSearch
    /\ IF found
       THEN /\ cube' = argStart
            /\ next' = 1
            /\ pc' = "s2for"
       ELSE /\ pc' = "done"
            /\ UNCHANGED <<cube, next>>
    /\ UNCHANGED <<driver, stage, argStart, argEnd, first, callVars, fwd, bwd, found>>

\* lines 327-328: allMoves[move](cube) for the next move of result
S2Apply ==
    /\ pc = "s2for"
    /\ next <= Len(result)
    /\ allMoves' = IndexInsert(allMoves, result[next])
    /\ cube' = Apply(MoveOf(allMoves', result[next]), cube)
    /\ next' = next + 1
    /\ UNCHANGED <<pc, driver, stage, argStart, argEnd, first, startCube, endCube,
                   searchVars, fwd, bwd, found, result>>

\* Solve2Stages with the result.clear() of line 329 in force
S2SecondCleared ==
    /\ pc = "s2for"
    /\ next > Len(result)
    /\ \E o1 \in Orders, o2 \in Orders : CallSolve(cube, argEnd, GenerateAll2Moves(o1, o2))
    /\ stage' = 2
    /\ result' = <<>>
    /\ UNCHANGED <<driver, argStart, argEnd, cube, next, first, searchVars, found>>

\* line 331: the second Solve, from cube with the half-turn catalog
S2Second ==
    /\ pc = "s2for"
    /\ next > Len(result)
    /\ \E o1 \in Orders, o2 \in Orders : CallSolve(cube, argEnd, GenerateAll2Moves(o1, o2))
    /\ stage' = 2
    /\ UNCHANGED <<driver, argStart, argEnd, cube, next, first, searchVars, found, result>>

NextStages ==
    \/ S2Enter
    \/ S2FirstReturn
    \/ S2Apply
    \/ S2Second
    \/ DoSolveEnter
    \/ LoopExit
    \/ FwdPop
    \/ FwdSkip
    \/ FwdMove
    \/ FwdForEnd
    \/ BwdPop
    \/ BwdSkip
    \/ BwdMove
    \/ BwdForEnd
    \/ SolveReturn

SpecStages == InitStages /\ [][NextStages]_vars

(***************************************************************************)
(* A caller that solves from a to b and then from b to a.                  *)
(***************************************************************************)
InitPair == InitCall("Pair")

\* the first Solve has returned: its outcome is kept and Solve is called
\* with startCube and endCube exchanged, again with an empty result
PairSecond ==
    /\ pc = "done"
    /\ driver = "Pair" /\ stage = 1
    /\ first' = [found |-> found, result |-> result]
    /\ CallSolve(endCube, startCube, allMoves)
    /\ result' = <<>>
    /\ stage' = 2
    /\ UNCHANGED <<driver, argStart, argEnd, cube, next, searchVars, found>>

NextPair ==
    \/ PairSecond
    \/ DoSolveEnter
    \/ LoopExit
    \/ FwdPop
    \/ FwdSkip
    \/ FwdMove
    \/ FwdForEnd
    \/ BwdPop
    \/ BwdSkip
    \/ BwdMove
    \/ BwdForEnd
    \/ SolveReturn

SpecPair == InitPair /\ [][NextPair]_vars

(***************************************************************************)
(* A caller that applies catalog moves to a cube one after the other.      *)
(***************************************************************************)
TestCubes == {EndCubeMain, DistinctCube}

\* the identifiers of the moves this caller applies
AppliedIds == ScrambleAlphabet \cup {<<"U">>}

InitMoves ==
    /\ pc = "apply"
    /\ driver = "Moves"
    /\ stage = 1
    /\ cube \in TestCubes /\ argStart = cube /\ argEnd = <<>>
    /\ next = 0
    /\ startCube = <<>> /\ endCube = <<>>
    /\ allMoves = GenerateAllMoves(0)
    /\ NoSearch
    /\ fwd = <<>> /\ bwd = <<>>
    /\ found = FALSE
    /\ result = <<>>
    /\ first = <<>>

\* TMove::operator() of a catalog move on cube; result lists the moves applied
MovesApply ==
    /\ pc = "apply"
    /\ Len(result) < MaxApply
    /\ \E id \in AppliedIds :
          /\ cube' = Apply(MoveOf(allMoves, id), cube)
          /\ result' = Append(result, id)
    /\ UNCHANGED <<pc, driver, stage, argStart, argEnd, next, first, callVars,
                   searchVars, fwd, bwd, found>>

NextMoves == MovesApply

SpecMoves == InitMoves /\ [][NextMoves]_vars

(***************************************************************************)
(* A caller that hands Solve a start and a goal of unequal length.         *)
(***************************************************************************)
\* a cube with one more symbol at the back than cube
Longer(c) == Append(c, "r")

\* the cube without its last symbol
Shorter(c) == SubSeq(c, 1, Len(c) - 1)

\* <<catalog, start, goal>> with Len(start) # Len(goal). No cube is shorter
\* than 42 symbols where a move is applied (the moves index positions 0..41);
\* shorter cubes come with the empty catalog only.
LengthInputs ==
    {<<m, p[1], p[2]>> :
        m \in Catalogs \ {<<>>},
        p \in {<<UniformCube, Longer(Marked(0, "y"))>>,
               <<Longer(Marked(0, "y")), UniformCube>>,
               <<Marked(0, "y"), Longer(Marked(0, "y"))>>}}
        \cup {<<<<>>, p[1], p[2]>> :
                p \in {<<<<>>, UniformCube>>, <<UniformCube, Shorter(UniformCube)>>,
                       <<UniformCube, Longer(UniformCube)>>}}

InitLengths ==
    /\ pc = "DoSolve"
    /\ driver = "Solve"
    /\ stage = 1
    /\ \E input \in LengthInputs :
          /\ allMoves = input[1] /\ startCube = input[2] /\ endCube = input[3]
          /\ argStart = input[2] /\ argEnd = input[3]
    /\ cube = <<>> /\ next = 0
    /\ NoSearch
    /\ fwd = <<>> /\ bwd = <<>>
    /\ found = FALSE
    /\ result = <<>>
    /\ first = <<>>

SpecLengths == InitLengths /\ [][Next]_vars

(***************************************************************************)
(* A caller that applies one TSimpleCycleMove to a cube.                   *)
(***************************************************************************)
\* cubes of four symbols
SmallCubes == {<<"a", "b", "c", "d">>, <<"r", "r", "b", "o">>}

\* the lists of 1..n distinct positions of a cube of len symbols
RECURSIVE CyclesUpTo(_, _)
CyclesUpTo(len, n) ==
    IF n = 0 THEN {}
    ELSE CyclesUpTo(len, n - 1)
            \cup {c \in [1..n -> 0..(len - 1)] : \A i, j \in 1..n : c[i] = c[j] => i = j}

\* the indices a read past the end of a one-element Cycle can yield: each
\* position of the cube, and one beyond it
Strays(c) == 0..Len(c)

InitCycle ==
    /\ pc = "cycle"
    /\ driver = "Cycle"
    /\ stage = 1
    /\ cube \in SmallCubes /\ argStart = cube /\ argEnd = <<>>
    /\ next = 0
    /\ startCube = <<>> /\ endCube = <<>> /\ allMoves = <<>>
    /\ NoSearch
    /\ fwd = <<>> /\ bwd = <<>>
    /\ found = FALSE
    /\ result = <<>>
    /\ first = <<>>

\* TSimpleCycleMove(Cycle).Apply(cube); currentMove keeps Cycle, next the
\* position the last statement wrote, argStart the cube before
CycleApply ==
    /\ pc = "cycle"
    /\ \E Cycle \in CyclesUpTo(Len(cube), MaxCycle) :
          \E stray \in (IF Len(Cycle) >= 2 THEN {At(Cycle, 1)} ELSE Strays(cube)) :
              /\ cube' = SimpleCycleApplyAt(cube, Cycle, stray)
              /\ currentMove' = Cycle
              /\ next' = LastWritten(Cycle, stray)
    /\ pc' = "cycled"
    /\ UNCHANGED <<driver, stage, argStart, argEnd, first, callVars, fwdReached, bwdReached,
                   fwdQueue, bwdQueue, current, it, fwd, bwd, found, result>>

NextCycle == CycleApply

SpecCycle == InitCycle /\ [][NextCycle]_vars

(***************************************************************************)
(* Properties.                                                             *)
(***************************************************************************)
\* the cubes that sequences of catalog moves make of the cubes of frontier,
\* added to seen
RECURSIVE Closure(_, _, _)
Closure(catalog, seen, frontier) ==
    IF frontier = {} THEN seen
    ELSE LET moved == {Apply(catalog[i].second, c) : c \in frontier, i \in 1..Len(catalog)} \ seen
         IN  Closure(catalog, seen \cup moved, moved)

\* the cubes that sequences of catalog moves make of cube
Orbit(catalog, c) == Closure(catalog, {c}, {c})

\* how often x occurs in seq
Count(seq, x) == Cardinality({i \in 1..Len(seq) : seq[i] = x})

\* the identifiers of the half turns of GenerateAllMoves
HalfTurnIds == {id \in AllIds : Len(id) = 2 /\ id[2] = "2"}

\* C1: when Solve returns true with an initially empty result, result is the
\* forward list of the meeting cube followed by ReverseMoves of its backward
\* list, and the moves result names, applied in order to startCube, give
\* endCube; when DoSolve returns true after a search, fwd and bwd are the
\* lists recorded for one cube reached on both sides.
C1_RoundTrip ==
    /\ (pc = "Solve" /\ found /\ startCube # endCube) =>
          \E c \in DOMAIN fwdReached \cap DOMAIN bwdReached :
              fwd = fwdReached[c] /\ bwd = bwdReached[c]
    /\ (pc = "done" /\ found) =>
          /\ result = fwd \o ReverseMoves(bwd)
          /\ ApplyIds(allMoves, result, startCube) = endCube

C1_Witness ==
    /\ pc = "done" /\ found
    /\ Len(fwd) > 1 /\ bwd # <<>> /\ ReverseMoves(bwd) # bwd

\* C2: Solve(x, x, catalog) returns true with an empty sequence for every
\* catalog, the empty one included, and DoSolve returns before any cube is
\* recorded, put on a queue or expanded.
C2_Identity ==
    (pc \in {"Solve", "done"} /\ startCube = endCube) =>
        /\ found
        /\ fwd = <<>> /\ bwd = <<>>
        /\ NoSearch
        /\ pc = "done" => result = <<>>

C2_Witness ==
    /\ pc = "done" /\ startCube = endCube /\ allMoves = <<>>
    /\ found /\ result = <<>>

\* C3: DoSolve returns false only with both queues empty and no cube reached
\* on both sides, and then no sequence of catalog moves turns startCube into
\* endCube (so a reachable endCube makes DoSolve return true).
C3_FailureMeansUnreachable ==
    (pc = "Solve" /\ ~found) =>
        /\ fwdQueue = <<>> /\ bwdQueue = <<>>
        /\ DOMAIN fwdReached \cap DOMAIN bwdReached = {}
        /\ endCube \notin Orbit(allMoves, startCube)

C3_Witness ==
    /\ pc = "Solve" /\ ~found
    /\ Cardinality(DOMAIN fwdReached) > 1 /\ Cardinality(DOMAIN bwdReached) > 1

\* C4: the search always comes to an end, with success or failure, and so
\* does Solve; a start with a symbol content no move sequence can produce
\* from the goal ends in failure.
C4_Terminates == <>(pc = "done")

C4_Witness ==
    /\ pc = "done" /\ ~found
    /\ argStart = UniformCube /\ argEnd = Marked(0, "y") /\ allMoves # <<>>

\* the identifiers of ids, each reversed, in the order of ids
InverseEach(ids) == [i \in 1..Len(ids) |-> ReverseOne(ids[i])]

\* C5 as stated: Solve(a, b, C) succeeds iff Solve(b, a, C) does, and then the
\* identifiers Solve(b, a, C) returns are, as a multiset, the inverses of
\* those Solve(a, b, C) returns.
C5_SymmetryAsStated ==
    (pc = "done" /\ stage = 2) =>
        /\ first.found <=> found
        /\ found => \A id \in AllIds \cup {result[i] : i \in 1..Len(result)} :
                        Count(result, id) = Count(InverseEach(first.result), id)

\* C5 (amended): Solve(a, b, C) succeeds iff Solve(b, a, C) does; when both
\* succeed each sequence leads from its own start to its own goal, the
\* reversed first sequence is also a solution of the second search, and the
\* two lengths differ by at most one.
C5_Symmetry ==
    (pc = "done" /\ stage = 2) =>
        /\ first.found <=> found
        /\ found =>
              /\ ApplyIds(allMoves, result, startCube) = endCube
              /\ ApplyIds(allMoves, first.result, argStart) = argEnd
              /\ ApplyIds(allMoves, ReverseMoves(first.result), startCube) = endCube
              /\ Len(result) - Len(first.result) \in {-1, 0, 1}

C5_Witness ==
    /\ pc = "done" /\ stage = 2 /\ found /\ first.found
    /\ Len(result) # Len(first.result)

\* C6: for every identifier m of GenerateAllMoves and every cube, move m and
\* then the move named by the one identifier of ReverseMoves([m]) give the
\* cube back.
C6_InversionLaw ==
    pc = "apply" =>
        \A m \in Ids(allMoves) :
            /\ Len(ReverseMoves(<<m>>)) = 1
            /\ ApplyIds(allMoves, <<m>> \o ReverseMoves(<<m>>), cube) = cube

C6_Witness ==
    /\ pc = "apply" /\ argStart = DistinctCube
    /\ result = <<<<"U">>, <<"U", "'">>>>
    /\ cube = argStart

\* C7: in the catalog of GenerateAllMoves each quarter turn (U, U', D, D')
\* applied four times to a cube gives the cube back, and U2 (D2) does to a
\* cube what two applications of U (D) do.
C7_CatalogConsistency ==
    pc = "apply" =>
        /\ \A q \in {<<"U">>, <<"U", "'">>, <<"D">>, <<"D", "'">>} :
              ApplyIds(allMoves, <<q, q, q, q>>, cube) = cube
        /\ \A q \in {<<"U">>, <<"D">>} :
              ApplyIds(allMoves, <<Append(q, "2")>>, cube) = ApplyIds(allMoves, <<q, q>>, cube)

C7_Witness ==
    /\ pc = "apply" /\ argStart = DistinctCube
    /\ result = <<<<"U">>, <<"U">>, <<"U">>, <<"U">>>>
    /\ cube = argStart

\* C8: when startCube is endCube after one catalog move that changes it, Solve
\* succeeds with exactly one identifier, which names a catalog move that
\* turns startCube into endCube.
C8_SingleMoveScramble ==
    (/\ pc = "done"
     /\ startCube # endCube
     /\ \E i \in 1..Len(allMoves) : Apply(allMoves[i].second, endCube) = startCube) =>
        /\ found
        /\ Len(result) = 1
        /\ Contains(allMoves, result[1])
        /\ Apply(MoveOf(allMoves, result[1]), startCube) = endCube

C8_Witness ==
    /\ pc = "done" /\ found
    /\ endCube = EndCubeMain /\ startCube = Apply(MoveU, EndCubeMain)
    /\ result = <<<<"U", "'">>>>

\* C9: when Solve2Stages returns true, result is the sequence found between
\* the projections with the full catalog followed by the sequence found from
\* the intermediate cube to endCube with the half-turn catalog; result
\* applied to startCube gives endCube, and the intermediate cube, startCube
\* after the first sequence, has the projection of endCube.
C9_StagedSolve ==
    (pc = "done" /\ stage = 2 /\ found) =>
        LET stage1 == SubSeq(result, 1, next - 1)
            stage2 == SubSeq(result, next, Len(result))
        IN  /\ next - 1 <= Len(result)
            /\ ApplyIds(AllMovesInserted, stage1, Project(argStart)) = Project(argEnd)
            /\ cube = ApplyIds(AllMovesInserted, stage1, argStart)
            /\ Project(cube) = Project(argEnd)
            /\ startCube = cube /\ endCube = argEnd
            /\ Ids(allMoves) = HalfTurnIds
            /\ stage2 = fwd \o ReverseMoves(bwd)
            /\ ApplyIds(allMoves, stage2, cube) = argEnd
            /\ ApplyIds(AllMovesInserted, result, argStart) = argEnd

C9_Witness ==
    /\ pc = "done" /\ stage = 2 /\ found
    /\ next > 1 /\ Len(result) > next

\* C10: every identifier Solve returns is one of the catalog it was given, so
\* the loop of Solve2Stages finds every identifier in its catalog and its
\* operator[] inserts nothing.
C10_LabelsInCatalog ==
    /\ pc = "s2for" =>
          /\ \A i \in 1..Len(result) : Contains(allMoves, result[i])
          /\ Ids(allMoves) = AllIds /\ Len(allMoves) = Len(AllMovesInserted)
    /\ (pc = "done" /\ stage = 2 /\ found) =>
          \A i \in next..Len(result) : Contains(allMoves, result[i])

C10_Witness ==
    /\ pc = "s2for" /\ next > Len(result)
    /\ bwd # <<>> /\ ReverseMoves(bwd) # bwd
    /\ \E i \in 1..Len(bwd) : bwd[i] \in HalfTurnIds

\* C11: when startCube and endCube have different lengths, Solve rejects the
\* call before the search begins: neither map and neither queue gets an
\* entry, no catalog move is applied (the for loops are never entered), and
\* the call does not report success.
C11_LengthPrecondition ==
    Len(startCube) # Len(endCube) =>
        /\ fwdReached = EmptyMap /\ bwdReached = EmptyMap
        /\ fwdQueue = <<>> /\ bwdQueue = <<>>
        /\ pc \notin {"fwdFor", "bwdFor"}
        /\ ~found

\* DoSolve is in its while loop
InSearch == pc \in {"while", "fwdFor", "bwdIf", "bwdFor"}

\* how many cubes a side has taken off its queue: every cube enters the map
\* and the queue together (lines 226-227, 240-243)
Popped(reached, queue) == Cardinality(DOMAIN reached) - Len(queue)

\* the forward (backward) expansions completed: the cubes taken off the
\* queue, less the one whose for loop is running
FwdDone == Popped(fwdReached, fwdQueue) - (IF pc = "fwdFor" THEN 1 ELSE 0)
BwdDone == Popped(bwdReached, bwdQueue) - (IF pc = "bwdFor" THEN 1 ELSE 0)

\* C12: in every iteration of the while loop one forward expansion happens if
\* the forward queue is not empty, and then one backward expansion if the
\* backward queue is not empty. While both queues are non-empty the completed
\* forward expansions equal the backward ones at the loop head and during a
\* forward expansion, and exceed them by one at the backward turn; with one
\* queue empty the loop goes on with the other side alone.
C12_LockStep ==
    /\ [](InSearch /\ fwdQueue # <<>> /\ bwdQueue # <<>> =>
            /\ pc \in {"while", "fwdFor"} => FwdDone = BwdDone
            /\ pc \in {"bwdIf", "bwdFor"} => FwdDone = BwdDone + 1)
    /\ [][/\ pc = "while" /\ fwdQueue # <<>> => pc' = "fwdFor"
          /\ pc = "fwdFor" /\ pc' # "fwdFor" => pc' \in {"bwdIf", "Solve"}
          /\ pc = "bwdIf" /\ bwdQueue # <<>> => pc' = "bwdFor"
          /\ pc = "bwdFor" /\ pc' # "bwdFor" => pc' \in {"while", "Solve"}
          /\ pc = "while" /\ fwdQueue = <<>> /\ bwdQueue # <<>> =>
                pc' = "bwdIf" /\ UNCHANGED <<fwdReached, fwdQueue, bwdReached, bwdQueue>>
          /\ pc = "bwdIf" /\ bwdQueue = <<>> /\ fwdQueue # <<>> =>
                pc' = "while" /\ UNCHANGED <<fwdReached, fwdQueue, bwdReached, bwdQueue>>]_vars

C12_Witness ==
    /\ pc = "bwdFor" /\ fwdQueue # <<>> /\ bwdQueue # <<>>
    /\ BwdDone >= 2 /\ FwdDone = BwdDone + 1

\* the list recorded for every cube of the map leads from root to the cube
ValidPaths(reached, root) ==
    \A s \in DOMAIN reached : ApplyIds(allMoves, reached[s], root) = s

\* the queue holds cubes of the map, each once
QueuedOnce(reached, queue) ==
    /\ \A i \in 1..Len(queue) : queue[i] \in DOMAIN reached
    /\ \A i, j \in 1..Len(queue) : queue[i] = queue[j] => i = j

\* a step keeps every recorded list as it is, and pushes a cube only when the
\* map did not have it; the list it then records leads from root to the cube
WrittenOnce(reached, reachedAfter, queue, queueAfter, root) ==
    /\ \A s \in DOMAIN reached : s \in DOMAIN reachedAfter /\ reachedAfter[s] = reached[s]
    /\ \/ queueAfter = queue /\ DOMAIN reachedAfter = DOMAIN reached
       \/ queue # <<>> /\ queueAfter = Tail(queue) /\ DOMAIN reachedAfter = DOMAIN reached
       \/ /\ Len(queueAfter) = Len(queue) + 1
          /\ SubSeq(queueAfter, 1, Len(queue)) = queue
          /\ LET pushed == queueAfter[Len(queueAfter)]
             IN  /\ pushed \notin DOMAIN reached
                 /\ DOMAIN reachedAfter = DOMAIN reached \cup {pushed}
                 /\ ApplyIds(allMoves, reachedAfter[pushed], root) = pushed

\* C13: at every point of the search the list recorded for a cube of
\* fwdReached, applied in order to startCube, gives the cube, and the list
\* recorded for a cube of bwdReached, applied to endCube, gives the cube; a
\* list is written when the cube is first reached on that side and never
\* again, and a cube is pushed on a side's queue at most once. (Every list is
\* checked when it is written, all lists at the head of each iteration and
\* when DoSolve returns; no step changes a list in between.)
C13_BookkeepingPaths ==
    /\ [](/\ QueuedOnce(fwdReached, fwdQueue) /\ QueuedOnce(bwdReached, bwdQueue)
          /\ pc \in {"while", "Solve"} =>
                ValidPaths(fwdReached, startCube) /\ ValidPaths(bwdReached, endCube))
    /\ [][InSearch =>
            /\ WrittenOnce(fwdReached, fwdReached', fwdQueue, fwdQueue', startCube)
            /\ WrittenOnce(bwdReached, bwdReached', bwdQueue, bwdQueue', endCube)]_vars

\* a forward expansion is about to reach again a cube the map has, and the
\* map has lists of two identifiers
C13_Witness ==
    /\ pc = "fwdFor" /\ it <= Len(allMoves)
    /\ Apply(allMoves[it].second, current) \in DOMAIN fwdReached
    /\ \E s \in DOMAIN fwdReached : Len(fwdReached[s]) >= 2
    /\ \E s \in DOMAIN bwdReached : Len(bwdReached[s]) >= 2

\* the cubes at exactly 0, 1, .. n catalog moves from the cubes of frontier,
\* none of them in seen before: the layers of a breadth-first traversal
RECURSIVE Layers(_, _, _, _)
Layers(catalog, seen, frontier, n) ==
    IF n = 0 THEN <<frontier>>
    ELSE LET moved == {Apply(catalog[i].second, c) : c \in frontier, i \in 1..Len(catalog)} \ seen
         IN  <<frontier>> \o Layers(catalog, seen \cup moved, moved, n - 1)

\* the longest list of the map
MaxRecorded(reached) ==
    CHOOSE n \in {Len(reached[s]) : s \in DOMAIN reached} :
        \A s \in DOMAIN reached : Len(reached[s]) <= n

\* every list of the map has as many identifiers as the least number of
\* catalog moves that lead from root to its cube
ShortestLists(reached, root) ==
    reached # EmptyMap =>
        LET layers == Layers(allMoves, {root}, {root}, MaxRecorded(reached))
        IN  \A s \in DOMAIN reached : s \in layers[Len(reached[s]) + 1]

\* the lists of the queued cubes: front to back never shorter, the last at
\* most one identifier longer than the first
QueueByLength(reached, queue) ==
    /\ \A i \in 1..(Len(queue) - 1) : Len(reached[queue[i]]) <= Len(reached[queue[i + 1]])
    /\ queue # <<>> => Len(reached[queue[Len(queue)]]) <= Len(reached[queue[1]]) + 1

\* a step takes a cube off the front of the queue and makes it current, or
\* adds one at the back, or leaves the queue alone
Fifo(queue, queueAfter, currentAfter) ==
    \/ queueAfter = queue
    \/ queue # <<>> /\ queueAfter = Tail(queue) /\ currentAfter = Head(queue)
    \/ Len(queueAfter) = Len(queue) + 1 /\ SubSeq(queueAfter, 1, Len(queue)) = queue

\* C14: on each side cubes leave the queue in the order they entered it; the
\* lists of the cubes in a queue, front to back, never get shorter and differ
\* in length by at most one; and the list recorded for a cube has as many
\* identifiers as the least number of catalog moves from that side's root to
\* the cube (all lists are compared with the layers of the catalog's graph at
\* the head of each iteration and when DoSolve returns).
C14_BreadthFirst ==
    /\ [](InSearch \/ pc = "Solve" =>
            /\ QueueByLength(fwdReached, fwdQueue) /\ QueueByLength(bwdReached, bwdQueue)
            /\ pc \in {"while", "Solve"} =>
                  ShortestLists(fwdReached, startCube) /\ ShortestLists(bwdReached, endCube))
    /\ [][InSearch => /\ Fifo(fwdQueue, fwdQueue', current')
                      /\ Fifo(bwdQueue, bwdQueue', current')]_vars

\* both queues hold cubes with lists of two lengths, the longer of two
\* identifiers at least
C14_Witness ==
    /\ pc = "while" /\ fwdQueue # <<>> /\ bwdQueue # <<>>
    /\ Len(fwdReached[fwdQueue[1]]) < Len(fwdReached[fwdQueue[Len(fwdQueue)]])
    /\ Len(bwdReached[bwdQueue[1]]) < Len(bwdReached[bwdQueue[Len(bwdQueue)]])
    /\ Len(bwdReached[bwdQueue[Len(bwdQueue)]]) >= 2

\* C15: for every list of k >= 1 distinct positions of the cube (k = 1
\* included) TSimpleCycleMove::Apply rotates by one step: the symbol that was
\* at Cycle[i] is at Cycle[(i + 1) mod k] afterwards, every position the list
\* does not name keeps its symbol, and no position outside the list is
\* written.
C15_CycleApplication ==
    pc = "cycled" =>
        LET Cycle == currentMove
            k == Len(Cycle)
            named == {At(Cycle, i) : i \in 0..(k - 1)}
        IN  /\ \A i \in 0..(k - 1) :
                  cube[At(Cycle, (i + 1) % k) + 1] = argStart[At(Cycle, i) + 1]
            /\ \A p \in (0..(Len(cube) - 1)) \ named : cube[p + 1] = argStart[p + 1]
            /\ Len(cube) = Len(argStart)
            /\ next \in named

\* cube has as many symbols as root, and each symbol as often as root has it
SameShape(c, root) ==
    /\ Len(c) = Len(root)
    /\ \A ch \in {c[i] : i \in 1..Len(c)} \cup {root[i] : i \in 1..Len(root)} :
          Count(c, ch) = Count(root, ch)

\* the cubes a side holds in its map and its queue
Held(reached, queue) == DOMAIN reached \cup {queue[i] : i \in 1..Len(queue)}

\* C16: every cube recorded in a visited map or held in a queue during a
\* search has the length of that side's root and the root's symbols, each as
\* often as the root has it (every cube is compared with the root in the
\* step that records or queues it, and all cubes again when DoSolve returns).
C16_StateShape ==
    /\ [](pc = "Solve" =>
            /\ \A c \in Held(fwdReached, fwdQueue) : SameShape(c, startCube)
            /\ \A c \in Held(bwdReached, bwdQueue) : SameShape(c, endCube))
    /\ [][InSearch \/ pc = "DoSolve" =>
            /\ \A c \in Held(fwdReached', fwdQueue') \ Held(fwdReached, fwdQueue) :
                  SameShape(c, startCube)
            /\ \A c \in Held(bwdReached', bwdQueue') \ Held(bwdReached, bwdQueue) :
                  SameShape(c, endCube)]_vars

\* DoSolve has returned with maps of many cubes
C16_Witness ==
    /\ pc = "Solve" /\ found
    /\ Cardinality(DOMAIN fwdReached) >= 20 /\ Cardinality(DOMAIN bwdReached) >= 10
    /\ \E c \in DOMAIN bwdReached : c # endCube /\ c # startCube

\* the cubes both maps hold
Common == DOMAIN fwdReached \cap DOMAIN bwdReached

\* the cube the for loop is about to make of current
Upcoming == Apply(allMoves[it].second, current)

\* C17: at the head of every iteration and before every application of a
\* catalog move the two maps have no cube in common, so the test made for a
\* cube the expanding side already had never succeeds; DoSolve returns in
\* the step in which a cube comes to be in both maps, and that cube is the
\* one the expanding side has just recorded, with fwd and bwd its two lists.
C17_FirstIntersection ==
    /\ [](InSearch =>
            /\ Common = {}
            /\ pc = "fwdFor" /\ it <= Len(allMoves) /\ Upcoming \in DOMAIN fwdReached =>
                  Upcoming \notin DOMAIN bwdReached
            /\ pc = "bwdFor" /\ it <= Len(allMoves) /\ Upcoming \in DOMAIN bwdReached =>
                  Upcoming \notin DOMAIN fwdReached)
    /\ [][InSearch =>
            \/ pc' # "Solve" /\ DOMAIN fwdReached' \cap DOMAIN bwdReached' = {}
            \/ pc = "while" /\ pc' = "Solve" /\ ~found'
            \/ /\ pc' = "Solve" /\ found'
               /\ \E c \in DOMAIN fwdReached' \cap DOMAIN bwdReached' :
                     /\ DOMAIN fwdReached' \cap DOMAIN bwdReached' = {c}
                     /\ pc = "fwdFor" => c \notin DOMAIN fwdReached
                     /\ pc = "bwdFor" => c \notin DOMAIN bwdReached
                     /\ fwd' = fwdReached'[c] /\ bwd' = bwdReached'[c]]_vars

\* DoSolve has returned from a backward expansion with the one cube both
\* maps hold, reached by moves on both sides
C17_Witness ==
    /\ pc = "Solve" /\ found /\ Cardinality(Common) = 1
    /\ Len(fwd) >= 1 /\ Len(bwd) >= 2
    /\ current \in DOMAIN bwdReached

\* the cubes at most n catalog moves from c
Ball(catalog, c, n) ==
    LET layers == Layers(catalog, {c}, {c}, n)
    IN  UNION {layers[i] : i \in 1..Len(layers)}

\* some sequence of at most n catalog moves leads from s to e. The catalog
\* holds the inverse of each of its moves, so the cubes that lead to e in k
\* moves are the cubes k moves from e, and a sequence of n moves passes a cube
\* that is (n + 1) \div 2 moves from s and n \div 2 moves from e.
Within(catalog, s, e, n) ==
    /\ n >= 0
    /\ Ball(catalog, s, (n + 1) \div 2) \cap Ball(catalog, e, n \div 2) # {}

\* C18: for the catalogs of the repository, each closed under inversion,
\* whenever Solve succeeds the identifiers it returns are at most one more
\* than those of a shortest sequence of catalog moves from startCube to
\* endCube: no sequence two or more moves shorter than result exists.
C18_NearOptimal ==
    (pc = "done" /\ found) => ~Within(allMoves, startCube, endCube, Len(result) - 2)

\* Solve has returned a sequence one move longer than a shortest one
C18_Witness ==
    /\ pc = "done" /\ found /\ Len(result) >= 3
    /\ Within(allMoves, startCube, endCube, Len(result) - 1)

\* seq begins with prefix
IsPrefix(prefix, seq) ==
    Len(prefix) <= Len(seq) /\ SubSeq(seq, 1, Len(prefix)) = prefix

\* C19: Solve only appends to result. No step takes an identifier out of
\* result or changes one; the step in which Solve returns appends fwd and
\* ReverseMoves(bwd) after a successful search and nothing after a failed
\* one. Hence, with next - 1 the number of identifiers stage 1 left in
\* result (the loop of lines 327-328 went through them), Solve2Stages that
\* returns false after a successful stage 1 leaves exactly these in result,
\* and a stage 2 that starts from the goal leaves result with exactly these.
C19_OnlyAppends ==
    /\ [](pc = "done" /\ stage = 2 /\ (~found \/ cube = argEnd) =>
            /\ Len(result) = next - 1
            /\ ApplyIds(GenerateAllMoves(0), result, argStart) = cube)
    /\ [][/\ IsPrefix(result, result')
          /\ pc = "Solve" =>
                result' = IF found THEN result \o fwd \o ReverseMoves(bwd) ELSE result
          /\ pc # "Solve" => result' = result]_vars

\* Solve2Stages has returned false after a stage 1 that left identifiers in
\* result
C19_Witness ==
    /\ pc = "done" /\ stage = 2 /\ ~found
    /\ Len(result) >= 1

====
